---------------------------- MODULE Spec2Model ----------------------------
(***************************************************************************)
(* dimmer (src/src/main.rs): one run of `main`, from the parsed command    *)
(* line to the process exit.  Files hold text, modelled as sequences of    *)
(* one-character strings; the numbers the program reads and writes go      *)
(* through the decimal conversions the code uses (Display / parse::<u64>). *)
(* All numbers of the model stay far below 2^64, so the u64 product        *)
(* duration * framerate (main.rs:147) never overflows in the runs checked. *)
(* The per-frame sleep (main.rs:171) changes no state and is not modelled. *)
(***************************************************************************)
EXTENDS Integers, Sequences, FiniteSets, TLC

(* ------------------------------ bounds -------------------------------- *)
\* largest brightness value a device file or --target holds
MaxBrightness == 10
\* largest --duration, in whole seconds
MaxDuration == 2
\* largest --framerate
MaxFramerate == 3

(* ------------------------------- text --------------------------------- *)
Digits == <<"0", "1", "2", "3", "4", "5", "6", "7", "8", "9">>

IsDigit(c) == \E d \in 1..10 : Digits[d] = c

DigitValue(c) == (CHOOSE d \in 1..10 : Digits[d] = c) - 1

\* char::is_whitespace, for the characters the model's files hold
IsWhitespace(c) == c \in {" ", "\n", "\t"}

\* write!(f, "{}", n) for a u64: the decimal text of n, no sign, no newline
RECURSIVE ToDecimal(_)
ToDecimal(n) ==
    IF n < 10 THEN <<Digits[n + 1]>>
    ELSE ToDecimal(n \div 10) \o <<Digits[(n % 10) + 1]>>

RECURSIVE TrimStart(_)
TrimStart(s) ==
    IF s # <<>> /\ IsWhitespace(Head(s)) THEN TrimStart(Tail(s)) ELSE s

RECURSIVE TrimEnd(_)
TrimEnd(s) ==
    IF s # <<>> /\ IsWhitespace(s[Len(s)])
    THEN TrimEnd(SubSeq(s, 1, Len(s) - 1))
    ELSE s

\* str::trim
Trim(s) == TrimEnd(TrimStart(s))

RECURSIVE DigitsValue(_)
DigitsValue(s) ==
    IF s = <<>> THEN 0
    ELSE 10 * DigitsValue(SubSeq(s, 1, Len(s) - 1)) + DigitValue(s[Len(s)])

\* str::parse::<u64>: an optional '+', then one or more decimal digits
ParseU64(s) ==
    LET body == IF s # <<>> /\ Head(s) = "+" THEN Tail(s) ELSE s
    IN  IF body # <<>> /\ \A k \in 1..Len(body) : IsDigit(body[k])
        THEN [ok |-> TRUE, value |-> DigitsValue(body)]
        ELSE [ok |-> FALSE, value |-> 0]

\* str::strip_suffix('%')
StripPercent(s) ==
    IF s # <<>> /\ s[Len(s)] = "%"
    THEN [some |-> TRUE, rest |-> SubSeq(s, 1, Len(s) - 1)]
    ELSE [some |-> FALSE, rest |-> s]

(* ------------------------------ values -------------------------------- *)
\* Option::None for the optional paths of Opt
None == "None"
\* a path given on the command line
UserPath == "user"
\* a path found under /sys/class/backlight
SysPath == "sys"

\* a local of main that has not been assigned yet
Unset == -1

\* the contents of a file that does not exist or cannot be read
Missing == <<"ENOENT">>

\* what is in the brightness-control file when the run starts
PriorBrightnessText == <<"7", "\n">>

Result(ok, value, err) == [ok |-> ok, value |-> value, err |-> err]

(* ----------------------------- Brightness ----------------------------- *)
\* Brightness::from_file: read_to_string, trim, parse
from_file(content) ==
    IF content = Missing THEN Result(FALSE, 0, "IoError")
    ELSE LET p == ParseU64(Trim(content))
         IN  IF p.ok THEN Result(TRUE, p.value, "none")
             ELSE Result(FALSE, 0, "ParseError")

\* ((percentage as f64 / 100.0) * max as f64) as u64.  The percentages of the
\* model (0, 50, 100) divide to 0.0, 0.5 and 1.0, which f64 holds exactly, and
\* the product with a max below 2^53 is exact too, so the truncation is that
\* of the exact quotient.
PercentOf(percentage, max) == (percentage * max) \div 100

\* Brightness::parse_with_percentage
parse_with_percentage(input, max) ==
    LET sp == StripPercent(input)
        p  == ParseU64(sp.rest)
    IN  IF ~p.ok THEN Result(FALSE, 0, "InvalidBrightness")
        ELSE IF ~sp.some THEN Result(TRUE, p.value, "none")
        ELSE IF p.value > 100 THEN Result(FALSE, 0, "InvalidPercentage")
        ELSE Result(TRUE, PercentOf(p.value, max), "none")

(* ------------------------------ helpers ------------------------------- *)
\* find_file: the first match of the glob, or why there is none
FindResults == {"found", "nomatch", "globerror"}

find_file(r) ==
    IF r = "found" THEN Result(TRUE, SysPath, "none")
    ELSE IF r = "nomatch" THEN Result(FALSE, None, "DeviceNotFound")
    ELSE Result(FALSE, None, "GlobError")

\* Option::unwrap_or: its argument is evaluated by the caller, before the call
unwrap_or(option, default) == IF option = None THEN default ELSE option

\* Clamp without the comparison: the target is used as given
ClampNone(t, m) == t

\* let target = if target > maximum { maximum } else { target };
Clamp(t, m) == IF t > m THEN m ELSE t

\* Plan with `t >= o` in the first arm: equal values no longer reach exit(0)
PlanNoExit(t, o, frames) ==
    IF t >= o THEN
        IF frames = 0 THEN [kind |-> "panic", step_size |-> 0, dimming |-> FALSE]
        ELSE [kind |-> "ramp", step_size |-> (t - o) \div frames, dimming |-> FALSE]
    ELSE
        IF frames = 0 THEN [kind |-> "panic", step_size |-> 0, dimming |-> TRUE]
        ELSE [kind |-> "ramp", step_size |-> (o - t) \div frames, dimming |-> TRUE]

\* Plan with a zero total_frames treated as nothing to do: exit(0), no panic
PlanZeroFramesExit(t, o, frames) ==
    IF frames = 0 \/ t = o THEN [kind |-> "exit", step_size |-> 0, dimming |-> FALSE]
    ELSE IF t > o
    THEN [kind |-> "ramp", step_size |-> (t - o) \div frames, dimming |-> FALSE]
    ELSE [kind |-> "ramp", step_size |-> (o - t) \div frames, dimming |-> TRUE]

\* the match on (target.0, stored.0): step size and direction, exit(0) when
\* they are equal; a division by a zero total_frames panics
Plan(t, o, frames) ==
    IF t > o THEN
        IF frames = 0 THEN [kind |-> "panic", step_size |-> 0, dimming |-> FALSE]
        ELSE [kind |-> "ramp", step_size |-> (t - o) \div frames, dimming |-> FALSE]
    ELSE IF o > t THEN
        IF frames = 0 THEN [kind |-> "panic", step_size |-> 0, dimming |-> TRUE]
        ELSE [kind |-> "ramp", step_size |-> (o - t) \div frames, dimming |-> TRUE]
    ELSE [kind |-> "exit", step_size |-> 0, dimming |-> FALSE]

\* NextBrightness with the direction flag inverted
NextBrightnessInverted(b, t, step, dim) ==
    IF ~dim THEN
        IF b < step THEN 0 ELSE b - step
    ELSE IF (t - b) < step THEN t
    ELSE b + step

\* the body of the for loop before the write: the frame's brightness
NextBrightness(b, t, step, dim) ==
    IF dim THEN
        IF b < step THEN 0 ELSE b - step
    ELSE IF (t - b) < step THEN t
    ELSE b + step

\* LoopDone for the inclusive range 0..=total_frames
LoopDoneInclusive(i, frames) == i > frames

\* for _i in 0..total_frames: the range is exhausted
LoopDone(i, frames) == i >= frames

\* set_brightness with writeln! in place of write!
set_brightness_newline(f, b, io_ok) ==
    IF io_ok THEN [ok |-> TRUE, f |-> f \o ToDecimal(b) \o <<"\n">>]
    ELSE [ok |-> FALSE, f |-> f]

\* set_brightness that drops the write's error and returns Ok(())
set_brightness_ignore_error(f, b, io_ok) ==
    [ok |-> TRUE, f |-> IF io_ok THEN f \o ToDecimal(b) ELSE f]

\* set_brightness: write!(f, "{}", brightness.0) on the open handle, which
\* writes at the handle's offset (the end of what it wrote before)
set_brightness(f, b, io_ok) ==
    IF io_ok THEN [ok |-> TRUE, f |-> f \o ToDecimal(b)]
    ELSE [ok |-> FALSE, f |-> f]

\* save that opens the state file for appending instead of truncating it
save_append(old, b, io) ==
    IF io = "ok"
    THEN [ok |-> TRUE, f |-> (IF old = Missing THEN <<>> ELSE old) \o ToDecimal(b)]
    ELSE [ok |-> FALSE, f |-> old]

\* save: File::create truncates the state file, then write! puts the decimal
\* text; io says which of the two calls fails, if any
SaveOutcomes == {"ok", "create_fails", "write_fails"}

save(old, b, io) ==
    IF io = "ok" THEN [ok |-> TRUE, f |-> ToDecimal(b)]
    ELSE IF io = "create_fails" THEN [ok |-> FALSE, f |-> old]
    ELSE [ok |-> FALSE, f |-> <<>>]

(* ------------------------------ inputs -------------------------------- *)
\* --target: absolute values, percentages, and text that is no number
Percentages == {0, 50, 100, 101}

TargetStrs ==
    {ToDecimal(n) : n \in 0..MaxBrightness}
    \cup {ToDecimal(p) \o <<"%">> : p \in Percentages}
    \cup {<<"x">>}

\* the optional paths of one run: the three device paths are given together or
\* left out together, the state file path on its own
PathOpts ==
    {[brightness_file |-> p, current_brightness_file |-> p,
      max_brightness_file |-> p, state_file |-> q] :
        p \in {None, UserPath}, q \in {None, UserPath}}

Opts ==
    {[brightness_file |-> po.brightness_file,
      current_brightness_file |-> po.current_brightness_file,
      max_brightness_file |-> po.max_brightness_file,
      state_file |-> po.state_file,
      duration |-> d,
      target_str |-> ts,
      framerate |-> fr,
      save |-> sv,
      restore |-> rs] :
        po \in PathOpts, d \in 0..MaxDuration, ts \in TargetStrs,
        fr \in 0..MaxFramerate, sv \in BOOLEAN, rs \in BOOLEAN}

\* what actual_brightness can hold: sysfs ends the number with a newline
DeviceTexts ==
    {ToDecimal(n) \o <<"\n">> : n \in 0..MaxBrightness} \cup {Missing, <<"\n">>}

\* what max_brightness can hold
MaximumTexts ==
    {ToDecimal(n) \o <<"\n">> : n \in {MaxBrightness \div 2, MaxBrightness}}
    \cup {Missing, <<"\n">>}

\* what the state file can hold when the run starts (an earlier save leaves a
\* number with no newline)
StateFileTexts == {Missing, <<"x">>, <<"3">>}

(* ------------------------------- state -------------------------------- *)
VARIABLES
    opt,                      \* Opt::from_args()
    pc,                       \* the statement of main that runs next
    brightness_file,          \* the resolved paths
    current_brightness_file,
    max_brightness_file,
    state_file,
    stored, maximum, target,  \* Brightness values
    total_frames, step_size, dimming,
    brightness, i,            \* the loop's brightness and frame counter
    state_file_text,          \* contents of the state file
    brightness_file_text,     \* contents of the brightness-control file
    opens,                    \* File::create calls on the brightness-control file
    written,                  \* the values written to it, in order
    failed_frame,             \* the frame whose write failed, 0 if none
    exit_code,                \* Unset while running
    err                       \* the error main returned, or the panic

paths == <<brightness_file, current_brightness_file, max_brightness_file, state_file>>
locals == <<stored, maximum, target, total_frames, step_size, dimming, brightness, i>>
device == <<brightness_file_text, opens, written, failed_frame>>
vars == <<opt, pc, paths, locals, state_file_text, device, exit_code, err>>

Init ==
    /\ opt \in Opts
    /\ pc = "brightness_file"
    /\ brightness_file = None
    /\ current_brightness_file = None
    /\ max_brightness_file = None
    /\ state_file = None
    /\ stored = Unset /\ maximum = Unset /\ target = Unset
    /\ total_frames = Unset /\ step_size = Unset /\ dimming = FALSE
    /\ brightness = Unset /\ i = 0
    /\ state_file_text \in StateFileTexts
    /\ brightness_file_text = PriorBrightnessText
    /\ opens = 0
    /\ written = <<>>
    /\ failed_frame = 0
    /\ exit_code = Unset
    /\ err = "none"

\* main returns Err(e): the error is printed and the process exits 1
Fail(e) ==
    /\ pc' = "exited"
    /\ exit_code' = 1
    /\ err' = e

\* a panic: the process exits 101
Panic(e) ==
    /\ pc' = "exited"
    /\ exit_code' = 101
    /\ err' = e

\* exit(0), or main returns Ok(())
Succeed ==
    /\ pc' = "exited"
    /\ exit_code' = 0
    /\ err' = "none"

Goto(l) ==
    /\ pc' = l
    /\ UNCHANGED <<exit_code, err>>

(* ------------------------------ actions ------------------------------- *)
\* let brightness_file = opt.brightness_file.unwrap_or(find_file("brightness")?);
ResolveBrightnessFile ==
    /\ pc = "brightness_file"
    /\ \E r \in FindResults :
         LET found == find_file(r)
         IN  IF found.ok
             THEN /\ brightness_file' = unwrap_or(opt.brightness_file, found.value)
                  /\ Goto("current_brightness_file")
             ELSE /\ Fail(found.err)
                  /\ UNCHANGED brightness_file
    /\ UNCHANGED <<opt, current_brightness_file, max_brightness_file, state_file,
                   locals, state_file_text, device>>

\* opt.current_brightness_file.unwrap_or(find_file("actual_brightness")?)
ResolveCurrentBrightnessFile ==
    /\ pc = "current_brightness_file"
    /\ \E r \in FindResults :
         LET found == find_file(r)
         IN  IF found.ok
             THEN /\ current_brightness_file' =
                        unwrap_or(opt.current_brightness_file, found.value)
                  /\ Goto("max_brightness_file")
             ELSE /\ Fail(found.err)
                  /\ UNCHANGED current_brightness_file
    /\ UNCHANGED <<opt, brightness_file, max_brightness_file, state_file,
                   locals, state_file_text, device>>

\* opt.max_brightness_file.unwrap_or(find_file("max_brightness")?)
ResolveMaxBrightnessFile ==
    /\ pc = "max_brightness_file"
    /\ \E r \in FindResults :
         LET found == find_file(r)
         IN  IF found.ok
             THEN /\ max_brightness_file' =
                        unwrap_or(opt.max_brightness_file, found.value)
                  /\ Goto("state_file")
             ELSE /\ Fail(found.err)
                  /\ UNCHANGED max_brightness_file
    /\ UNCHANGED <<opt, brightness_file, current_brightness_file, state_file,
                   locals, state_file_text, device>>

\* opt.state_file.unwrap_or_else(|| ...): the closure runs only for None, and
\* its two expect() calls panic when XDG gives no config path
ResolveStateFile ==
    /\ pc = "state_file"
    /\ IF opt.state_file # None
       THEN /\ state_file' = opt.state_file
            /\ Goto("stored")
       ELSE \E xdg_ok \in BOOLEAN :
              IF xdg_ok
              THEN /\ state_file' = "xdg"
                   /\ Goto("stored")
              ELSE /\ Panic("ConfigDirUnavailable")
                   /\ UNCHANGED state_file
    /\ UNCHANGED <<opt, brightness_file, current_brightness_file,
                   max_brightness_file, locals, state_file_text, device>>

\* let stored = Brightness::from_file(&current_brightness_file)?;
ReadStored ==
    /\ pc = "stored"
    /\ \E content \in DeviceTexts :
         LET r == from_file(content)
         IN  IF r.ok
             THEN /\ stored' = r.value
                  /\ Goto("maximum")
             ELSE /\ Fail(r.err)
                  /\ UNCHANGED stored
    /\ UNCHANGED <<opt, paths, maximum, target, total_frames, step_size, dimming,
                   brightness, i, state_file_text, device>>

\* let maximum = Brightness::from_file(&max_brightness_file)?;
ReadMaximum ==
    /\ pc = "maximum"
    /\ \E content \in MaximumTexts :
         LET r == from_file(content)
         IN  IF r.ok
             THEN /\ maximum' = r.value
                  /\ Goto("save")
             ELSE /\ Fail(r.err)
                  /\ UNCHANGED maximum
    /\ UNCHANGED <<opt, paths, stored, target, total_frames, step_size, dimming,
                   brightness, i, state_file_text, device>>

\* if opt.save { save(&state_file, stored)?; }
Save ==
    /\ pc = "save"
    /\ IF opt.save
       THEN \E io \in SaveOutcomes :
              LET r == save(state_file_text, stored, io)
              IN  /\ state_file_text' = r.f
                  /\ IF r.ok THEN Goto("target") ELSE Fail("IoError")
       ELSE /\ Goto("target")
            /\ UNCHANGED state_file_text
    /\ UNCHANGED <<opt, paths, locals, device>>

\* the target: from the state file with --restore, from --target otherwise,
\* then clamped to the maximum
ResolveTarget ==
    /\ pc = "target"
    /\ LET r == IF opt.restore THEN from_file(state_file_text)
                ELSE parse_with_percentage(opt.target_str, maximum)
       IN  IF r.ok
           THEN /\ target' = Clamp(r.value, maximum)
                /\ Goto("plan")
           ELSE /\ Fail(r.err)
                /\ UNCHANGED target
    /\ UNCHANGED <<opt, paths, stored, maximum, total_frames, step_size, dimming,
                   brightness, i, state_file_text, device>>

\* total_frames, then the match that plans the ramp, exits or panics
PlanRamp ==
    /\ pc = "plan"
    /\ LET frames == opt.duration * opt.framerate
           plan   == Plan(target, stored, frames)
       IN  /\ total_frames' = frames
           /\ IF plan.kind = "ramp"
              THEN /\ step_size' = plan.step_size
                   /\ dimming' = plan.dimming
                   /\ Goto("create")
              ELSE /\ UNCHANGED <<step_size, dimming>>
                   /\ IF plan.kind = "exit" THEN Succeed
                      ELSE Panic("DivideByZero")
    /\ UNCHANGED <<opt, paths, stored, maximum, target, brightness, i,
                   state_file_text, device>>

\* let output = File::create(&brightness_file)?; let mut brightness = stored;
CreateOutput ==
    /\ pc = "create"
    /\ \E io_ok \in BOOLEAN :
         IF io_ok
         THEN /\ brightness_file_text' = <<>>
              /\ opens' = opens + 1
              /\ brightness' = stored
              /\ Goto("loop")
         ELSE /\ Fail("IoError")
              /\ UNCHANGED <<brightness_file_text, opens, brightness>>
    /\ UNCHANGED <<opt, paths, stored, maximum, target, total_frames, step_size,
                   dimming, i, state_file_text, written, failed_frame>>

\* one iteration of the for loop: the new brightness, then set_brightness(..)?
Frame ==
    /\ pc = "loop"
    /\ ~LoopDone(i, total_frames)
    /\ \E io_ok \in BOOLEAN :
         LET b == NextBrightness(brightness, target, step_size, dimming)
             r == set_brightness(brightness_file_text, b, io_ok)
         IN  /\ brightness' = b
             /\ brightness_file_text' = r.f
             /\ written' = IF io_ok THEN Append(written, b) ELSE written
             /\ failed_frame' =
                    IF ~io_ok /\ failed_frame = 0 THEN i + 1 ELSE failed_frame
             /\ IF r.ok
                THEN /\ i' = i + 1
                     /\ Goto("loop")
                ELSE /\ Fail("IoError")
                     /\ UNCHANGED i
    /\ UNCHANGED <<opt, paths, stored, maximum, target, total_frames, step_size,
                   dimming, state_file_text, opens>>

\* the loop is over: Ok(())
Finish ==
    /\ pc = "loop"
    /\ LoopDone(i, total_frames)
    /\ Succeed
    /\ UNCHANGED <<opt, paths, locals, state_file_text, device>>

Next ==
    \/ ResolveBrightnessFile
    \/ ResolveCurrentBrightnessFile
    \/ ResolveMaxBrightnessFile
    \/ ResolveStateFile
    \/ ReadStored
    \/ ReadMaximum
    \/ Save
    \/ ResolveTarget
    \/ PlanRamp
    \/ CreateOutput
    \/ Frame
    \/ Finish

Spec == Init /\ [][Next]_vars

TypeOK ==
    /\ pc \in {"brightness_file", "current_brightness_file", "max_brightness_file",
               "state_file", "stored", "maximum", "save", "target", "plan",
               "create", "loop", "exited"}
    /\ exit_code \in {Unset, 0, 1, 101}
    /\ (pc = "exited") = (exit_code # Unset)
    /\ i \in 0..(MaxDuration * MaxFramerate)

(* ------------------------------ claims -------------------------------- *)
Abs(n) == IF n < 0 THEN -n ELSE n

Min(a, b) == IF a < b THEN a ELSE b

\* the brightness after frame j of the ramp that main planned
RECURSIVE FrameValue(_)
FrameValue(j) ==
    IF j = 0 THEN stored
    ELSE NextBrightness(FrameValue(j - 1), target, step_size, dimming)

\* the decimal texts of a sequence of values, one after the other
RECURSIVE ConcatDecimal(_)
ConcatDecimal(values) ==
    IF values = <<>> THEN <<>>
    ELSE ConcatDecimal(SubSeq(values, 1, Len(values) - 1))
         \o ToDecimal(values[Len(values)])

\* the value the target is resolved from, before the clamp
RequestedTarget ==
    IF opt.restore THEN from_file(state_file_text).value
    ELSE parse_with_percentage(opt.target_str, maximum).value

AllDevicePathsGiven ==
    /\ opt.brightness_file # None
    /\ opt.current_brightness_file # None
    /\ opt.max_brightness_file # None

\* C1: once the clamped target is known and equals the brightness read from
\* the device, the brightness-control file is never created or written, and
\* the only step left is the exit with code 0, whatever duration * framerate
\* is (0 included).
C1_NoOpAtTarget ==
    (target # Unset /\ stored = target) =>
        /\ opens = 0
        /\ written = <<>>
        /\ brightness_file_text = PriorBrightnessText
        /\ pc \in {"plan", "exited"}
        /\ pc = "exited" => exit_code = 0

C1_Witness ==
    /\ pc = "exited" /\ exit_code = 0
    /\ target # Unset /\ stored = target
    /\ total_frames = 0

\* C2: a ramp that ran all its frames and exited 0 wrote the clamped target
\* as its last value.
C2_FinalValueIsTarget ==
    (pc = "exited" /\ exit_code = 0 /\ opens = 1 /\ failed_frame = 0) =>
        /\ written # <<>>
        /\ written[Len(written)] = target

\* C3: the target of the ramp is the requested value when that is at most the
\* maximum, and the maximum otherwise; step size and direction are those of
\* the clamped target.
C3_TargetClamped ==
    (target # Unset) =>
        /\ target <= maximum
        /\ RequestedTarget > maximum => target = maximum
        /\ RequestedTarget <= maximum => target = RequestedTarget
        /\ pc \in {"create", "loop"} =>
              /\ step_size = Abs(target - stored) \div total_frames
              /\ dimming = (stored > target)

C3_Witness ==
    /\ pc = "loop"
    /\ RequestedTarget > maximum
    /\ target = maximum
    /\ written # <<>>

\* C4: with explicit paths for the three device files, the run does not end
\* in a device-discovery error.
C4_ExplicitPathsSkipDiscovery ==
    AllDevicePathsGiven => err \notin {"DeviceNotFound", "GlobError"}

\* C5 as claimed: after each frame's write the brightness-control file holds
\* exactly the decimal text of that frame's value.
C5_WriteReplacesContents ==
    (opens = 1 /\ written # <<>>) =>
        brightness_file_text = ToDecimal(written[Len(written)])

\* C5 as amended: the brightness-control file is created (truncated) at most
\* once, before the first frame, and each frame's write puts the decimal text
\* of its value after what the handle wrote before: the file holds the texts
\* of all values written so far, in order, with no newline and no separator.
C5_WritesAppendToOpenHandle ==
    /\ opens \in {0, 1}
    /\ opens = 0 => (written = <<>> /\ brightness_file_text = PriorBrightnessText)
    /\ opens = 1 => brightness_file_text = ConcatDecimal(written)
    /\ pc = "loop" => opens = 1

C5_Witness ==
    /\ opens = 1
    /\ Len(written) >= 3
    /\ brightness_file_text # ToDecimal(written[Len(written)])
    /\ \E k \in 1..Len(written) : written[k] >= 10

\* C6: when the write of frame k fails, the run is over with a non-zero exit
\* code, frame k and the later frames wrote nothing, and what was written is
\* the values of frames 1..k-1.
C6_WriteFailureAborts ==
    (failed_frame # 0) =>
        /\ pc = "exited"
        /\ exit_code = 1
        /\ i = failed_frame - 1
        /\ Len(written) = failed_frame - 1
        /\ \A k \in 1..Len(written) : written[k] = FrameValue(k)
        /\ brightness_file_text = ConcatDecimal(written)

C6_Witness ==
    /\ failed_frame >= 3
    /\ pc = "exited"
    /\ written[Len(written)] = FrameValue(failed_frame - 1)
    /\ written[Len(written)] # target

\* C7: when step_size * total_frames = |target - stored| > 0, the k-th value
\* written is stored - k * step_size (decreasing) or stored + k * step_size
\* (increasing), and a run that exits 0 wrote exactly total_frames values.
C7_ExactSteps ==
    (opens = 1 /\ step_size * total_frames = Abs(target - stored)) =>
        /\ \A k \in 1..Len(written) :
              written[k] = IF dimming THEN stored - k * step_size
                           ELSE stored + k * step_size
        /\ Len(written) <= total_frames
        /\ (pc = "exited" /\ exit_code = 0) => Len(written) = total_frames

C7_Witness ==
    /\ pc = "exited" /\ exit_code = 0
    /\ opens = 1
    /\ step_size * total_frames = Abs(target - stored)
    /\ step_size >= 2
    /\ Len(written) >= 3

\* C8: with total_frames = 0 and stored # target the run ends in a failure
\* (the panic of the division by zero), never with exit code 0, and the
\* brightness-control file is neither created nor written.
C8_ZeroFramesFails ==
    (total_frames = 0 /\ stored # target) =>
        /\ pc = "exited"
        /\ exit_code \notin {0, Unset}
        /\ opens = 0
        /\ written = <<>>
        /\ brightness_file_text = PriorBrightnessText

C8_Witness ==
    /\ total_frames = 0
    /\ stored # target
    /\ exit_code = 101
    /\ err = "DivideByZero"

\* C9: every value written lies between stored and the clamped target, and
\* the values written are monotone in the direction of the ramp.
C9_NoOvershoot ==
    \A k \in 1..Len(written) :
        LET prev == IF k = 1 THEN stored ELSE written[k - 1]
        IN  IF dimming
            THEN target <= written[k] /\ written[k] <= prev /\ prev <= stored
            ELSE stored <= prev /\ prev <= written[k] /\ written[k] <= target

C9_Witness ==
    /\ pc = "exited" /\ exit_code = 0
    /\ Len(written) >= 3
    /\ step_size >= 1
    /\ step_size * total_frames # Abs(target - stored)

\* C10: with --save and --restore together, once the target is resolved the
\* state file holds the decimal text of the current brightness, the clamped
\* target is min(stored, maximum) whatever the state file held before and
\* whatever --target says, and when stored <= maximum the run exits 0 and
\* leaves the brightness-control file alone.
C10_SaveThenRestore ==
    (opt.save /\ opt.restore /\ target # Unset) =>
        /\ state_file_text = ToDecimal(stored)
        /\ target = Min(stored, maximum)
        /\ stored <= maximum =>
              /\ opens = 0
              /\ written = <<>>
              /\ pc \in {"plan", "exited"}
              /\ pc = "exited" => exit_code = 0

C10_Witness ==
    /\ opt.save /\ opt.restore
    /\ pc = "exited" /\ exit_code = 0
    /\ stored = 5 /\ maximum >= 5
    /\ opt.target_str = <<"0">>
    /\ state_file_text = <<"5">>

=============================================================================
